---- MODULE Spec2Model ----
(***************************************************************************)
(* Model of examples/stress-test.py: the load generator of Keystone        *)
(* Gateway.  StressTest.make_request issues one HTTP call and classifies   *)
(* it, StressTest.run_concurrent_requests runs N of them on a              *)
(* ThreadPoolExecutor of C workers and reduces the latencies to a          *)
(* TestResult, main() warms up, runs the scenarios one after another and   *)
(* prints the summary.                                                     *)
(*                                                                         *)
(* Time is a discrete clock (perf_counter): only differences of it are     *)
(* used by the code.  Latencies are clock differences; the two float       *)
(* products len(latencies) * 0.95 and * 0.99 are computed as IEEE-754      *)
(* doubles (FloatMulInt).  Quotients (mean, requests per second) are kept  *)
(* as fractions num/den.                                                   *)
(***************************************************************************)
EXTENDS Integers, Sequences, FiniteSets, TLC

\* ---- bounds of the model ------------------------------------------------
MaxN == 3            \* num_requests of a batch is drawn from 0..MaxN
MaxFairN == 2        \* num_requests of a batch run under fairness is in 0..MaxFairN
MaxC == 2            \* concurrency of a batch is drawn from 1..MaxC
MainN == 1           \* num_requests of a scenario of main() is in 1..MainN
NumScenarios == 2    \* scenarios main() runs (10 in the script)
WarmupCalls == 1     \* warmup calls of main() (10 in the script)
MaxReduceLen == 20   \* longest latency list handed to the reducer alone
MaxElapsed == 4      \* longest duration of a call made on its own

VARIABLES
    pc,            \* position of the calling (main) thread
    scenarios,     \* the scenario definitions: [n, c, method, headers]
    k,             \* index of the scenario being run
    warm,          \* warmup calls made so far
    now,           \* time.perf_counter()
    start_time,    \* run_concurrent_requests: start_time
    duration,      \* run_concurrent_requests: duration
    futures,       \* run_concurrent_requests: futures (one per submit)
    queue,         \* ThreadPoolExecutor: work queue (indices into futures)
    idleSem,       \* ThreadPoolExecutor: _idle_semaphore
    worker,        \* ThreadPoolExecutor: the worker threads
    latencies,     \* run_concurrent_requests: latencies
    successes,     \* run_concurrent_requests: successes
    failures,      \* run_concurrent_requests: failures
    all_results,   \* main: result1 .. result10, as they are returned
    summary,       \* main: the totals of the summary, or the error raised
    lastCall,      \* the most recent make_request invocation and its return
    httpCalls      \* HTTP calls dispatched by the batch's returned invocations

vars == <<pc, scenarios, k, warm, now, start_time, duration, futures, queue,
          idleSem, worker, latencies, successes, failures, all_results,
          summary, lastCall, httpCalls>>

\* ---- values ---------------------------------------------------------------
Methods == {"GET", "POST", "PUT"}

\* The headers argument: None, or a dict (named by its key).
Headers == {"none", "X-API-Key", "Content-Type"}

StatusCodes == {199, 200, 204, 299, 300, 404, 500}

\* What the network does to one dispatched call: a status code comes back, or
\* requests raises (connection refused, or the timeout=10 expires).
NetOutcomes ==
    [kind : {"status"}, code : StatusCodes]
        \cup [kind : {"ConnectionError", "Timeout"}, code : {0}]

Rat(n, d) == [num |-> n, den |-> d]

RatZero == Rat(0, 1)

RECURSIVE SumSeq(_)
SumSeq(s) == IF s = <<>> THEN 0 ELSE Head(s) + SumSeq(Tail(s))

RECURSIVE BitLen(_)
BitLen(n) == IF n = 0 THEN 0 ELSE 1 + BitLen(n \div 2)

\* ---- float arithmetic of the percentile indices ---------------------------
\* int(M * x) for the double x = (a * 2^36 + b * 2^18 + c) / 2^53, 2^52 <= the
\* mantissa < 2^53: the exact product is rounded to 53 significant bits
\* (round half to even), then truncated towards zero.  Valid for 0 <= M < 2^13.
FloatMulInt(M, a, b, c) ==
    IF M = 0 THEN 0
    ELSE LET L    == 2 ^ 18
             lo   == M * c
             mid  == M * b + (lo \div L)
             A0   == M * a + (mid \div L)
             B0   == mid % L
             C0   == lo % L
             d    == BitLen(A0) - 17
             q    == C0 \div (2 ^ d)
             r    == C0 % (2 ^ d)
             up   == d > 0 /\ (2 * r > 2 ^ d \/ (2 * r = 2 ^ d /\ q % 2 = 1))
             q1   == IF up THEN q + 1 ELSE q
             B1   == IF q1 * (2 ^ d) = L THEN B0 + 1 ELSE B0
             A1   == IF B1 = L THEN A0 + 1 ELSE A0
         IN  A1 \div (2 ^ 17)

\* int(len(latencies) * 0.95): 0.95 is the double 0x1.e666666666666p-1
Index95Interp(M) == IF M = 0 THEN 0 ELSE ((M - 1) * 95) \div 100
Index95(M) == FloatMulInt(M, 124518, 104857, 157286)

\* int(len(latencies) * 0.99): 0.99 is the double 0x1.fae147ae147aep-1
Index99(M) == FloatMulInt(M, 129761, 73400, 83886)

\* len(latencies) // 2
Index50(M) == M \div 2

\* latencies.sort()
Unsorted(lat) == lat
SortedLatencies(lat) == SortSeq(lat, LAMBDA x, y : x < y)


\* ---- StressTest.make_request ----------------------------------------------
\* The exceptions the "except Exception" clause catches.
CaughtRequestsOnly(exc) == exc \in {"ConnectionError", "Timeout"}
Caught(exc) == exc \in {"ConnectionError", "Timeout", "UnboundLocalError"}

\* success = 200 <= response.status_code < 300
IsSuccessStatusInclusive(code) == 200 <= code /\ code <= 300
IsSuccessStatus(code) == 200 <= code /\ code < 300

\* The body of the try block: GET and POST dispatch one HTTP call, whose
\* outcome is net; for any other method no call is made and the read of
\* response raises UnboundLocalError.  elapsed is perf_counter() - start.
TryBodyFallbackGet(method, net, elapsed) ==
    IF net.kind = "status"
    THEN [raised |-> "none", success |-> IsSuccessStatus(net.code),
          latency |-> elapsed]
    ELSE [raised |-> net.kind, success |-> FALSE, latency |-> 0]
TryBody(method, net, elapsed) ==
    IF method \in {"GET", "POST"}
    THEN IF net.kind = "status"
         THEN [raised |-> "none", success |-> IsSuccessStatus(net.code),
               latency |-> elapsed]
         ELSE [raised |-> net.kind, success |-> FALSE, latency |-> 0]
    ELSE [raised |-> "UnboundLocalError", success |-> FALSE, latency |-> 0]

\* make_request: what the caller gets: a pair (success, latency), or the
\* exception that propagates.
make_request(method, net, elapsed) ==
    LET body == TryBody(method, net, elapsed)
    IN  IF body.raised = "none" THEN body
        ELSE IF Caught(body.raised)
             THEN [raised |-> "none", success |-> FALSE, latency |-> 0]
             ELSE body

\* The HTTP calls one invocation of make_request dispatches: one for GET and
\* for POST, none for any other method.  There is no loop and no second call
\* in the except clause.
DispatchesWithRetry(method, net) ==
    IF method \in {"GET", "POST"}
    THEN (IF net.kind = "Timeout" THEN 2 ELSE 1)
    ELSE 0
Dispatches(method, net) == IF method \in {"GET", "POST"} THEN 1 ELSE 0

\* The headers on the wire of the call make_request dispatches: requests.get
\* is called without headers (line 39), requests.post with headers or {}
\* (line 44); "nocall" when nothing is dispatched.
SentHeaders(method, headers) ==
    IF method = "GET" THEN "none"
    ELSE IF method = "POST" THEN headers
    ELSE "nocall"

CallRecord(method, headers, net, elapsed, ret) ==
    [valid |-> TRUE, method |-> method, headers |-> headers,
     sent |-> SentHeaders(method, headers), net |-> net,
     elapsed |-> elapsed, ret |-> ret]

NoCall ==
    [valid |-> FALSE, method |-> "GET", headers |-> "none", sent |-> "none",
     net |-> [kind |-> "status", code |-> 200], elapsed |-> 0,
     ret |-> [raised |-> "none", success |-> FALSE, latency |-> 0]]

\* min(latencies), max(latencies)
MinOf(s) == CHOOSE x \in {s[i] : i \in DOMAIN s} : \A i \in DOMAIN s : x <= s[i]

MaxOf(s) == CHOOSE x \in {s[i] : i \in DOMAIN s} : \A i \in DOMAIN s : x >= s[i]

\* ---- the reducer: lines 86-112 of run_concurrent_requests -----------------
Throughput(lat, num_requests, dur) ==
    IF Len(lat) > 0 THEN Rat(num_requests, dur) ELSE RatZero

TestResult(name, num_requests, lat, succ, fail, dur) ==
    IF Len(lat) > 0
    THEN LET s == SortedLatencies(lat)
         IN  [name |-> name, requests |-> num_requests,
              successes |-> succ, failures |-> fail,
              avg_ms |-> Rat(SumSeq(s), Len(s)),
              min_ms |-> MinOf(s), max_ms |-> MaxOf(s),
              p50_ms |-> s[Index50(Len(s)) + 1],
              p95_ms |-> s[Index95(Len(s)) + 1],
              p99_ms |-> s[Index99(Len(s)) + 1],
              requests_per_sec |-> Throughput(lat, num_requests, dur),
              duration_sec |-> dur]
    ELSE [name |-> name, requests |-> num_requests,
          successes |-> 0, failures |-> fail,
          avg_ms |-> RatZero, min_ms |-> 0, max_ms |-> 0,
          p50_ms |-> 0, p95_ms |-> 0, p99_ms |-> 0,
          requests_per_sec |-> Throughput(lat, num_requests, dur),
          duration_sec |-> dur]

\* ---- the state of one batch -----------------------------------------------
N == scenarios[k].n
C == scenarios[k].c

\* Thread identities: more than C exist, the pool decides how many it starts.
Workers == 1..(IF N > C THEN N ELSE C)

NewFuture == [state |-> "PENDING", collected |-> FALSE,
              result |-> [raised |-> "none", success |-> FALSE, latency |-> 0]]

Unborn == [st |-> "unborn", item |-> 0, t0 |-> 0]

\* make_request invocations that were started by a worker and did not return.
InFlight == {w \in DOMAIN worker : worker[w].st = "busy"}

poolVars == <<futures, queue, idleSem, worker>>
tallyVars == <<latencies, successes, failures>>
mainVars == <<scenarios, k, warm, all_results, summary>>

\* ---- StressTest.run_concurrent_requests -----------------------------------
\* Lines 65-70: the locals are initialised and the pool is created.
StartBatch ==
    /\ pc = "start"
    /\ start_time' = now
    /\ latencies' = <<>>
    /\ successes' = 0
    /\ failures' = 0
    /\ futures' = <<>>
    /\ queue' = <<>>
    /\ idleSem' = 0
    /\ worker' = [w \in Workers |-> Unborn]
    /\ httpCalls' = 0
    /\ pc' = IF N = 0 THEN "collect" ELSE "submit"
    /\ UNCHANGED <<mainVars, now, duration, lastCall>>

\* ThreadPoolExecutor._adjust_thread_count: an idle worker is reused, else a
\* thread is started while fewer than max_workers exist.
AdjustNever(w, sem) == w
AdjustOffByOne(w, sem) ==
    LET n == Cardinality({u \in DOMAIN w : w[u].st # "unborn"})
    IN  IF sem > 0 \/ n > C \/ n >= Cardinality(DOMAIN w) THEN w
        ELSE [w EXCEPT ![n + 1] = [st |-> "idle", item |-> 0, t0 |-> 0]]
AdjustThreadCount(w, sem) ==
    LET n == Cardinality({u \in DOMAIN w : w[u].st # "unborn"})
    IN  IF sem > 0 \/ n >= C THEN w
        ELSE [w EXCEPT ![n + 1] = [st |-> "idle", item |-> 0, t0 |-> 0]]

\* Lines 71-74: executor.submit(self.make_request, ...), once per request.
Submit ==
    /\ pc = "submit"
    /\ Len(futures) < N
    /\ futures' = Append(futures, NewFuture)
    /\ queue' = Append(queue, Len(futures) + 1)
    /\ worker' = AdjustThreadCount(worker, idleSem)
    /\ idleSem' = IF idleSem > 0 THEN idleSem - 1 ELSE idleSem
    /\ pc' = IF Len(futures) + 1 = N THEN "collect" ELSE "submit"
    /\ UNCHANGED <<mainVars, tallyVars, now, start_time, duration, lastCall,
                   httpCalls>>

\* A worker thread takes the next work item and enters make_request
\* (line 36: start = time.perf_counter()).  Idle threads are interchangeable:
\* the one of least identity stands for whichever wins the queue.
WorkerTake(w) ==
    /\ pc \in {"submit", "collect", "interrupted"}
    /\ worker[w].st = "idle"
    /\ \A u \in DOMAIN worker : worker[u].st = "idle" => w <= u
    /\ queue # <<>>
    /\ worker' = [worker EXCEPT ![w] =
                      [st |-> "busy", item |-> Head(queue), t0 |-> now]]
    /\ futures' = [futures EXCEPT ![Head(queue)].state = "RUNNING"]
    /\ queue' = Tail(queue)
    /\ UNCHANGED <<mainVars, tallyVars, pc, idleSem, now, start_time,
                   duration, lastCall, httpCalls>>

\* The call of a worker returns (lines 38-52) and the future is completed
\* with what make_request returned or raised.  A call takes time: the clock
\* has advanced past its start when it returns.
WorkerFinish(w) ==
    /\ pc \in {"submit", "collect", "interrupted"}
    /\ worker[w].st = "busy"
    /\ \E net \in NetOutcomes, adv \in 0..1 :
          /\ now + adv > worker[w].t0
          /\ now' = now + adv
          /\ LET ret == make_request(scenarios[k].method, net,
                                     now + adv - worker[w].t0)
             IN  futures' = [futures EXCEPT ![worker[w].item] =
                                [state |-> "FINISHED",
                                 collected |-> FALSE, result |-> ret]]
          /\ httpCalls' = httpCalls + Dispatches(scenarios[k].method, net)
    /\ worker' = [worker EXCEPT ![w] = [st |-> "idle", item |-> 0, t0 |-> 0]]
    /\ idleSem' = idleSem + 1
    /\ UNCHANGED <<mainVars, tallyVars, pc, queue, start_time, duration,
                   lastCall>>

\* Lines 76-82: one iteration of "for future in as_completed(futures)".
\* future.result() re-raises what the call raised.
TallyAll(ret, lat) == Append(lat, ret.latency)
TallyByLatency(ret, lat) ==
    IF ret.latency > 0 THEN Append(lat, ret.latency) ELSE lat
Tally(ret, lat) == IF ret.success THEN Append(lat, ret.latency) ELSE lat

CountSuccessStale(ret, n) == IF ret.success /\ n = 0 THEN 1 ELSE n
CountSuccess(ret, n) == IF ret.success THEN n + 1 ELSE n

CountFailureTransportOnly(ret, n) ==
    IF ~ret.success /\ ret.latency = 0 THEN n + 1 ELSE n
CountFailure(ret, n) == IF ret.success THEN n ELSE n + 1

Collect ==
    /\ pc = "collect"
    /\ \E i \in DOMAIN futures :
          /\ futures[i].state = "FINISHED"
          /\ ~futures[i].collected
          /\ futures' = [futures EXCEPT ![i].collected = TRUE]
          /\ LET ret == futures[i].result
             IN  IF ret.raised # "none"
                 THEN /\ pc' = "raised"
                      /\ UNCHANGED tallyVars
                 ELSE /\ pc' = pc
                      /\ latencies' = Tally(ret, latencies)
                      /\ successes' = CountSuccess(ret, successes)
                      /\ failures' = CountFailure(ret, failures)
    /\ UNCHANGED <<mainVars, queue, idleSem, worker, now, start_time,
                   duration, lastCall, httpCalls>>

\* as_completed is exhausted once every future was yielded.
AllYieldedAny(fs, n) == \E i \in DOMAIN fs : fs[i].collected
AllYieldedButOne(fs, n) ==
    /\ Len(fs) = n
    /\ Cardinality({i \in DOMAIN fs : fs[i].collected}) >= n - 1
AllYielded(fs, n) == Len(fs) = n /\ \A i \in DOMAIN fs : fs[i].collected

\* Line 74 -> 84: the loop ends, the with block shuts the pool down (the
\* workers are joined) and duration is read.  The batch took time: the clock
\* has advanced past start_time.
ExitPool ==
    /\ pc = "collect"
    /\ AllYielded(futures, N)
    /\ queue = <<>>
    /\ InFlight = {}
    /\ worker' = [w \in DOMAIN worker |->
                     IF worker[w].st = "unborn" THEN Unborn
                     ELSE [st |-> "exited", item |-> 0, t0 |-> 0]]
    /\ now' = IF now > start_time THEN now ELSE now + 1
    /\ duration' = now' - start_time
    /\ pc' = "reduce"
    /\ UNCHANGED <<mainVars, tallyVars, futures, queue, idleSem, start_time,
                   lastCall, httpCalls>>

\* Lines 86-115: the result is built and returned to main.
Reduce ==
    /\ pc = "reduce"
    /\ latencies' = IF Len(latencies) > 0 THEN SortedLatencies(latencies)
                    ELSE latencies
    /\ all_results' = Append(all_results,
                             TestResult(k, N, latencies, successes, failures,
                                        duration))
    /\ IF k < Len(scenarios)
       THEN k' = k + 1 /\ pc' = "start"
       ELSE k' = k /\ pc' = "summary"
    /\ UNCHANGED <<scenarios, warm, summary, poolVars, successes, failures,
                   now, start_time, duration, lastCall, httpCalls>>

\* ---- main -------------------------------------------------------------------
\* Lines 140-141: one warmup call, made by the main thread; its return value
\* is dropped.
Warmup ==
    /\ pc = "warmup"
    /\ warm < WarmupCalls
    /\ \E net \in NetOutcomes :
          LET ret == make_request("GET", net, 1)
          IN  /\ lastCall' = CallRecord("GET", "none", net, 1, ret)
              /\ pc' = IF ret.raised # "none" THEN "raised"
                       ELSE IF warm + 1 = WarmupCalls THEN "start"
                       ELSE "warmup"
    /\ warm' = warm + 1
    /\ now' = now + 1
    /\ UNCHANGED <<scenarios, k, all_results, summary, poolVars, tallyVars,
                   start_time, duration, httpCalls>>

RECURSIVE SumFieldFromWarm(_, _)
SumFieldFromWarm(rs, f) ==
    IF rs = <<>> THEN warm ELSE Head(rs)[f] + SumFieldFromWarm(Tail(rs), f)

RECURSIVE SumField(_, _)
SumField(rs, f) ==
    IF rs = <<>> THEN 0 ELSE Head(rs)[f] + SumField(Tail(rs), f)

\* a/b + c/d
RatAdd(x, y) == Rat(x.num * y.den + y.num * x.den, x.den * y.den)

RECURSIVE RatSum(_)
RatSum(xs) == IF xs = <<>> THEN RatZero ELSE RatAdd(Head(xs), RatSum(Tail(xs)))

\* statistics.mean(xs): raises StatisticsError on an empty list
Mean(xs) ==
    IF xs = <<>> THEN [error |-> "StatisticsError", value |-> RatZero]
    ELSE [error |-> "none",
          value |-> Rat(RatSum(xs).num, RatSum(xs).den * Len(xs))]

\* total / total_requests * 100 of lines 241-242
Percent(total, total_requests) ==
    IF total_requests = 0
    THEN [error |-> "ZeroDivisionError", value |-> RatZero]
    ELSE [error |-> "none", value |-> Rat(total * 100, total_requests)]

\* Lines 232-244, in the order the script evaluates them: the first error
\* raised ends the script.
Summarise(rs) ==
    LET total_requests  == SumField(rs, "requests")
        total_successes == SumField(rs, "successes")
        total_failures  == SumField(rs, "failures")
        tp == SelectSeq(rs, LAMBDA r : r.requests_per_sec.num > 0)
        al == SelectSeq(rs, LAMBDA r : r.avg_ms.num > 0)
        avg_throughput == Mean([i \in DOMAIN tp |-> tp[i].requests_per_sec])
        avg_latency    == Mean([i \in DOMAIN al |-> al[i].avg_ms])
        spct == Percent(total_successes, total_requests)
        fpct == Percent(total_failures, total_requests)
        error == IF avg_throughput.error # "none" THEN avg_throughput.error
                 ELSE IF avg_latency.error # "none" THEN avg_latency.error
                 ELSE IF spct.error # "none" THEN spct.error
                 ELSE fpct.error
    IN  [error |-> error,
         total_requests |-> total_requests,
         total_successes |-> total_successes,
         total_failures |-> total_failures,
         avg_throughput |-> avg_throughput.value,
         avg_latency |-> avg_latency.value,
         success_pct |-> spct.value,
         failure_pct |-> fpct.value]

NoSummary == [error |-> "unset", total_requests |-> 0, total_successes |-> 0,
              total_failures |-> 0, avg_throughput |-> RatZero,
              avg_latency |-> RatZero, success_pct |-> RatZero,
              failure_pct |-> RatZero]

Summary ==
    /\ pc = "summary"
    /\ summary' = Summarise(all_results)
    /\ pc' = IF Summarise(all_results).error = "none" THEN "done" ELSE "raised"
    /\ UNCHANGED <<scenarios, k, warm, all_results, poolVars, tallyVars, now,
                   start_time, duration, lastCall, httpCalls>>

\* ---- specifications ---------------------------------------------------------
Rest ==
    /\ k = 1
    /\ now = 0
    /\ start_time = 0
    /\ duration = 0
    /\ futures = <<>>
    /\ queue = <<>>
    /\ idleSem = 0
    /\ worker = <<>>
    /\ latencies = <<>>
    /\ successes = 0
    /\ failures = 0
    /\ all_results = <<>>
    /\ summary = NoSummary
    /\ lastCall = NoCall
    /\ httpCalls = 0

\* main(): the warmup, then the scenarios in their order, then the summary.
\* The scenarios of the script issue at least one request each, with GET but
\* for one POST; the POST carries a Content-Type, one GET an API key.
Init ==
    /\ pc = "warmup"
    /\ warm = 0
    /\ \E n \in 1..MainN, c \in 1..2 :
          scenarios = [i \in 1..NumScenarios |->
                         [n |-> n, c |-> c,
                          method |-> IF i = 2 THEN "POST" ELSE "GET",
                          headers |-> IF i = 2 THEN "Content-Type"
                                      ELSE IF i = 1 THEN "X-API-Key"
                                      ELSE "none"]]
    /\ Rest

BatchStep ==
    \/ StartBatch
    \/ Submit
    \/ \E w \in DOMAIN worker : WorkerTake(w)
    \/ \E w \in DOMAIN worker : WorkerFinish(w)
    \/ Collect
    \/ ExitPool
    \/ Reduce

Next ==
    \/ Warmup
    \/ BatchStep
    \/ Summary

Spec == Init /\ [][Next]_vars

\* One call of run_concurrent_requests, for any request count, concurrency
\* and method.
InitBatch ==
    /\ pc = "start"
    /\ warm = WarmupCalls
    /\ scenarios \in [1..1 -> [n : 0..MaxN, c : 1..MaxC, method : Methods,
                               headers : {"none"}]]
    /\ Rest

SpecBatch == InitBatch /\ [][BatchStep]_vars

\* The same call under fair scheduling: the calling thread takes its next
\* step when it has one, an idle worker takes a queued work item, and a call
\* in flight returns (requests bounds it by timeout=10).
CallerStep == StartBatch \/ Submit \/ Collect \/ ExitPool \/ Reduce

FairBatch ==
    /\ WF_vars(CallerStep)
    /\ WF_vars(\E w \in DOMAIN worker : WorkerTake(w))
    /\ WF_vars(\E w \in DOMAIN worker : WorkerFinish(w))

InitBatchFair ==
    /\ pc = "start"
    /\ warm = WarmupCalls
    /\ scenarios \in [1..1 -> [n : 0..MaxFairN, c : 1..MaxC, method : Methods,
                               headers : {"none"}]]
    /\ Rest

SpecBatchFair == InitBatchFair /\ [][BatchStep]_vars /\ FairBatch

\* One call of run_concurrent_requests that is interrupted: KeyboardInterrupt
\* is raised in the calling thread while the as_completed loop (line 76) has
\* futures left to yield.  The loop is left without a further iteration.
Interrupt ==
    /\ pc = "collect"
    /\ ~AllYielded(futures, N)
    /\ pc' = "interrupted"
    /\ UNCHANGED <<mainVars, poolVars, tallyVars, now, start_time, duration,
                   lastCall, httpCalls>>

\* The exception leaves the with block of line 70: ThreadPoolExecutor.__exit__
\* is shutdown(wait=True), which cancels nothing and joins the workers; they
\* exit when the work queue is drained.  The exception then leaves
\* run_concurrent_requests, which returns no result.
Unwind ==
    /\ pc = "interrupted"
    /\ queue = <<>>
    /\ InFlight = {}
    /\ worker' = [w \in DOMAIN worker |->
                     IF worker[w].st = "unborn" THEN Unborn
                     ELSE [st |-> "exited", item |-> 0, t0 |-> 0]]
    /\ pc' = "cancelled"
    /\ UNCHANGED <<mainVars, tallyVars, futures, queue, idleSem, now,
                   start_time, duration, lastCall, httpCalls>>

SpecCancel == InitBatch /\ [][BatchStep \/ Interrupt \/ Unwind]_vars

\* One call of make_request on its own, for any method, any outcome of the
\* network and any duration of the call.
MakeRequest ==
    /\ pc = "call"
    /\ \E net \in NetOutcomes, elapsed \in 1..MaxElapsed :
          LET ret == make_request(scenarios[1].method, net, elapsed)
          IN  /\ lastCall' = CallRecord(scenarios[1].method,
                                        scenarios[1].headers, net, elapsed,
                                        ret)
              /\ pc' = IF ret.raised # "none" THEN "raised" ELSE "call"
    /\ UNCHANGED <<mainVars, poolVars, tallyVars, now, start_time, duration,
                   httpCalls>>

InitRequest ==
    /\ pc = "call"
    /\ warm = WarmupCalls
    /\ scenarios \in [1..1 -> [n : {1}, c : {1}, method : Methods,
                               headers : Headers]]
    /\ Rest

SpecRequest == InitRequest /\ [][MakeRequest]_vars

\* The reducer on its own: run_concurrent_requests at line 86, after a batch
\* of concurrency 1 whose M successful calls took the latencies lat (in the
\* order they were collected) and whose f other calls were refused.
Ascending(M) == [i \in 1..M |-> i]

Descending(M) == [i \in 1..M |-> M + 1 - i]

Paired(M) == [i \in 1..M |-> (i + 1) \div 2]

Rotate(s, r) == [i \in 1..Len(s) |-> s[((i - 1 + r) % Len(s)) + 1]]

LatencyLists ==
    {Rotate(base, r) :
        base \in UNION {{Ascending(M), Descending(M), Paired(M)} :
                           M \in 1..MaxReduceLen},
        r \in 0..(MaxReduceLen - 1)} \cup {<<>>}

Collected(lat, f) ==
    [i \in 1..(Len(lat) + f) |->
        [state |-> "FINISHED", collected |-> TRUE,
         result |-> IF i <= Len(lat)
                    THEN [raised |-> "none", success |-> TRUE,
                          latency |-> lat[i]]
                    ELSE [raised |-> "none", success |-> FALSE,
                          latency |-> 0]]]

InitReduce ==
    /\ pc = "reduce"
    /\ warm = WarmupCalls
    /\ k = 1
    /\ \E lat \in LatencyLists, f \in 0..1 :
          /\ scenarios = <<[n |-> Len(lat) + f, c |-> 1, method |-> "GET",
                             headers |-> "none"]>>
          /\ latencies = lat
          /\ successes = Len(lat)
          /\ failures = f
          /\ futures = Collected(lat, f)
          /\ worker = [w \in 1..(IF Len(lat) + f > 1 THEN Len(lat) + f ELSE 1)
                          |-> IF w = 1 /\ Len(lat) + f > 0
                              THEN [st |-> "exited", item |-> 0, t0 |-> 0]
                              ELSE Unborn]
          /\ idleSem = Len(lat) + f
          /\ httpCalls = Len(lat) + f
          /\ now = (IF SumSeq(lat) + f > 0 THEN SumSeq(lat) + f ELSE 1)
          /\ duration = now
    /\ start_time = 0
    /\ queue = <<>>
    /\ all_results = <<>>
    /\ summary = NoSummary
    /\ lastCall = NoCall

SpecReduce == InitReduce /\ [][Reduce]_vars

\* ---- the claims ---------------------------------------------------------------
\* run_concurrent_requests has returned its result to main.
Returned == pc = "summary" /\ Len(all_results) = Len(scenarios)

LastResult == all_results[Len(all_results)]

NumCollected == Cardinality({i \in DOMAIN futures : futures[i].collected})

\* C1: when run_concurrent_requests returns, exactly N outcomes have been
\* collected, successes + failures = N and requests = N, for every N and C and
\* every mix of outcomes; if every call succeeded, successes = N and
\* failures = 0.
C1_AllOutcomesCounted ==
    Returned =>
        /\ NumCollected = N
        /\ LastResult.successes + LastResult.failures = N
        /\ LastResult.requests = N
        /\ (\A i \in DOMAIN futures : futures[i].result.success)
              => LastResult.successes = N /\ LastResult.failures = 0

C1_Witness ==
    /\ Returned
    /\ N = 3
    /\ C = 2
    /\ LastResult.successes = 2
    /\ LastResult.failures = 1

\* C2: at every instant at most C make_request invocations have been started
\* by a worker and have not returned.
C2_InFlightAtMostC == Cardinality(InFlight) <= C

C2_Witness ==
    /\ Cardinality(InFlight) = C
    /\ C = 2
    /\ N = 3
    /\ queue # <<>>

\* ---- the reducer's claims -----------------------------------------------------
\* The element at 0-based index idx of the ascending order of lat, stated
\* without sorting: the value v with fewer than idx + 1 elements below it and
\* at least idx + 1 elements not above it.
OrderStat(lat, idx) ==
    CHOOSE v \in {lat[i] : i \in DOMAIN lat} :
        /\ Cardinality({i \in DOMAIN lat : lat[i] < v}) <= idx
        /\ Cardinality({i \in DOMAIN lat : lat[i] <= v}) > idx

\* floor(M * p / 100), clamped to M - 1
NearestRank(M, p) ==
    IF (M * p) \div 100 > M - 1 THEN M - 1 ELSE (M * p) \div 100

\* The latencies of the successful calls of the batch, as a bag: how often
\* the value v was returned with success = true.
SuccessCount(v) ==
    Cardinality({i \in DOMAIN futures :
                    /\ futures[i].collected
                    /\ futures[i].result.raised = "none"
                    /\ futures[i].result.success
                    /\ futures[i].result.latency = v})

NumSuccessful ==
    Cardinality({i \in DOMAIN futures :
                    futures[i].state = "FINISHED"
                        /\ futures[i].result.success})

SuccessLatencies ==
    {futures[i].result.latency :
        i \in {j \in DOMAIN futures : futures[j].state = "FINISHED"
                                        /\ futures[j].result.success}}

\* The successful latencies of the batch are 1, 2, ..., 10, once each.
OneToTen ==
    /\ NumSuccessful = 10
    /\ SuccessLatencies = 1..10

\* C3: with M >= 1 successes, p50, p95 and p99 are the elements at index
\* floor(M * p / 100), clamped to M - 1, of the ascending order of the M
\* successful latencies; for the latencies 1..10 they are 6, 10 and 10.
C3_NearestRankPercentiles ==
    (Returned /\ NumSuccessful >= 1) =>
        LET M == NumSuccessful
        IN  /\ Len(latencies) = M
            /\ \A v \in SuccessLatencies :
                  SuccessCount(v) =
                      Cardinality({i \in DOMAIN latencies : latencies[i] = v})
            /\ LastResult.p50_ms = OrderStat(latencies, NearestRank(M, 50))
            /\ LastResult.p95_ms = OrderStat(latencies, NearestRank(M, 95))
            /\ LastResult.p99_ms = OrderStat(latencies, NearestRank(M, 99))
            /\ OneToTen => /\ LastResult.p50_ms = 6
                           /\ LastResult.p95_ms = 10
                           /\ LastResult.p99_ms = 10

C3_Witness ==
    /\ Returned
    /\ OneToTen
    /\ LastResult.p50_ms = 6
    /\ LastResult.p95_ms = 10
    /\ LastResult.failures = 1

\* C4: the reported throughput is N / duration for every batch, also for a
\* batch whose calls all failed.
C4_ThroughputIsNOverDuration ==
    Returned =>
        /\ LastResult.duration_sec > 0
        /\ LastResult.requests_per_sec.den > 0
        /\ LastResult.requests_per_sec.num * LastResult.duration_sec
              = N * LastResult.requests_per_sec.den

\* C5: a batch without a successful outcome (every call failed, or N = 0)
\* returns, without raising, a result with successes = 0 and avg, min, max,
\* p50, p95 and p99 all 0.
C5_ZeroSuccessesZeroStats ==
    /\ pc # "raised"
    /\ (Returned /\ NumSuccessful = 0) =>
          /\ LastResult.successes = 0
          /\ LastResult.requests = N
          /\ LastResult.avg_ms = RatZero
          /\ LastResult.min_ms = 0
          /\ LastResult.max_ms = 0
          /\ LastResult.p50_ms = 0
          /\ LastResult.p95_ms = 0
          /\ LastResult.p99_ms = 0

C5_Witness ==
    /\ Returned
    /\ N = 2
    /\ NumCollected = 2
    /\ NumSuccessful = 0
    /\ \E i \in DOMAIN futures : futures[i].result.latency > 0
    /\ LastResult.failures = 2
    /\ LastResult.max_ms = 0

C5_WitnessEmpty ==
    /\ Returned
    /\ N = 0
    /\ LastResult.requests = 0

\* ---- make_request's claims ----------------------------------------------------
\* C6: make_request returns success = true exactly when the HTTP call
\* completed without a transport error or timeout and the status code s
\* satisfies 200 <= s < 300.
C6_SuccessIffCompleted2xx ==
    lastCall.valid =>
        (lastCall.ret.raised = "none" /\ lastCall.ret.success)
            <=> /\ lastCall.method \in {"GET", "POST"}
                /\ lastCall.net.kind = "status"
                /\ 200 <= lastCall.net.code
                /\ lastCall.net.code < 300

C6_Witness ==
    /\ lastCall.valid
    /\ lastCall.method = "POST"
    /\ lastCall.net = [kind |-> "status", code |-> 299]
    /\ lastCall.ret.success
    /\ lastCall.ret.latency = lastCall.elapsed

\* C7: make_request never propagates an error: for every method and every
\* failure of the HTTP call it returns a pair (success, latency), with
\* success = false on failure.
C7_NeverRaises ==
    /\ pc # "raised"
    /\ lastCall.valid =>
          /\ lastCall.ret.raised = "none"
          /\ lastCall.ret.success \in BOOLEAN
          /\ lastCall.ret.latency \in 0..MaxElapsed
          /\ (lastCall.net.kind # "status" \/ lastCall.method \notin {"GET", "POST"})
                => ~lastCall.ret.success

C7_Witness ==
    /\ lastCall.valid
    /\ lastCall.method = "PUT"
    /\ lastCall.net.kind = "Timeout"
    /\ lastCall.ret = [raised |-> "none", success |-> FALSE, latency |-> 0]

\* ---- the coordinator's claims -------------------------------------------------
\* C8: the latency sample holds exactly the latencies of the successful
\* outcomes collected so far: its length is the success count and no latency
\* of a failed outcome is in it.
C8_OnlySuccessfulLatencies ==
    pc \in {"collect", "reduce", "summary"} =>
        /\ Len(latencies) = successes
        /\ successes = Cardinality({i \in DOMAIN futures :
                                       futures[i].collected
                                           /\ futures[i].result.success})
        /\ \A v \in 0..now :
              Cardinality({i \in DOMAIN latencies : latencies[i] = v})
                  = SuccessCount(v)
        /\ Returned => LastResult.successes = successes

C8_Witness ==
    /\ Returned
    /\ latencies = <<1>>
    /\ \E i \in DOMAIN futures :
          ~futures[i].result.success /\ futures[i].result.latency = 2
    /\ LastResult.max_ms = 1

\* C9: run_concurrent_requests computes its statistics and returns only
\* after all N outcomes were collected; a failed call does not end the batch,
\* the calls after it are executed and collected.
C9_ReturnsAfterAllCollected ==
    pc \in {"reduce", "summary"} =>
        /\ Len(futures) = N
        /\ \A i \in DOMAIN futures :
              futures[i].state = "FINISHED" /\ futures[i].collected
        /\ successes + failures = N
        /\ queue = <<>>
        /\ InFlight = {}

C9_Witness ==
    /\ Returned
    /\ N = 3
    /\ ~futures[1].result.success
    /\ futures[2].result.success
    /\ futures[3].result.success
    /\ LastResult.successes = 2

\* ---- the summary's claim ------------------------------------------------------
\* C10: the summary never raises a division or empty-mean error: with total
\* requests = 0 the percentages are 0, and a mean over no scenario with
\* nonzero throughput (or latency) is 0.
C10_SummaryNeverRaises ==
    /\ summary.error \in {"unset", "none"}
    /\ summary.error = "none" =>
          /\ summary.total_requests = 0
                => /\ summary.success_pct.num = 0
                   /\ summary.failure_pct.num = 0
          /\ (\A i \in DOMAIN all_results :
                 all_results[i].requests_per_sec.num = 0)
                => summary.avg_throughput.num = 0
          /\ (\A i \in DOMAIN all_results : all_results[i].avg_ms.num = 0)
                => summary.avg_latency.num = 0

\* ---- the request's headers ----------------------------------------------------
\* C11: every HTTP call make_request dispatches, by GET and by POST, carries
\* the headers it was given.
C11_HeadersSent ==
    (lastCall.valid /\ lastCall.method \in {"GET", "POST"}) =>
        lastCall.sent = lastCall.headers

\* ---- no retries ---------------------------------------------------------------
\* make_request invocations the pool has started.
Invoked == Cardinality({i \in DOMAIN futures : futures[i].state # "PENDING"})

\* C12: no request is retried: in a batch of N requests make_request is
\* invoked exactly N times, each invocation dispatches at most one HTTP call
\* and the HTTP calls dispatched never exceed N; a failed call is final.
C12_NoRetry ==
    pc \in {"submit", "collect", "reduce", "summary"} =>
        /\ Invoked <= N
        /\ Invoked = Cardinality(InFlight)
                        + Cardinality({i \in DOMAIN futures :
                                          futures[i].state = "FINISHED"})
        /\ httpCalls + Cardinality(InFlight) <= Invoked
        /\ httpCalls + Cardinality(InFlight) <= N
        /\ Returned => /\ Invoked = N
                       /\ httpCalls <= N
                       /\ scenarios[k].method \in {"GET", "POST"}
                             => httpCalls = N

C12_Witness ==
    /\ Returned
    /\ N = 3
    /\ httpCalls = 3
    /\ LastResult.failures = 3
    /\ \E i \in DOMAIN futures : futures[i].result.latency = 0

\* ---- the scenarios of main ------------------------------------------------------
\* C13: the scenarios run one after another, in their order: a request of
\* scenario k is queued or in flight only when the results of scenarios
\* 1..k-1 were returned with all their outcomes collected, and between two
\* scenarios the pool is shut down with nothing queued or in flight.
C13_ScenariosSequential ==
    /\ \A j \in DOMAIN all_results :
          /\ all_results[j].name = j
          /\ all_results[j].requests = scenarios[j].n
          /\ all_results[j].successes + all_results[j].failures
                = scenarios[j].n
    /\ pc \in {"start", "submit", "collect", "reduce"}
          => Len(all_results) = k - 1
    /\ (InFlight # {} \/ queue # <<>>) =>
          /\ pc \in {"submit", "collect"}
          /\ \A w \in InFlight :
                /\ worker[w].item \in DOMAIN futures
                /\ futures[worker[w].item].state = "RUNNING"
    /\ pc = "start" =>
          /\ InFlight = {}
          /\ queue = <<>>
          /\ \A w \in DOMAIN worker : worker[w].st \in {"unborn", "exited"}
          /\ \A i \in DOMAIN futures : futures[i].collected

C13_Witness ==
    /\ k = 2
    /\ InFlight # {}
    /\ Len(all_results) = 1
    /\ all_results[1].successes = 1
    /\ \A i \in DOMAIN futures : futures[i].state = "RUNNING"

\* ---- who writes the outcome collection ------------------------------------------
\* A step in which worker thread w takes a work item or returns from its call.
WorkerStep(w) ==
    /\ w \in DOMAIN worker
    /\ w \in DOMAIN worker'
    /\ \/ worker[w].st = "idle" /\ worker'[w].st = "busy"
       \/ worker[w].st = "busy" /\ worker'[w].st = "idle"

\* What a step of worker w leaves alone: the tally, the results, the other
\* workers and every future but the one of the item w runs.
WorkerFrame(w) ==
    LET i == IF worker[w].st = "busy" THEN worker[w].item
             ELSE worker'[w].item
    IN  /\ UNCHANGED <<latencies, successes, failures>>
        /\ UNCHANGED <<all_results, summary, pc>>
        /\ DOMAIN futures' = DOMAIN futures
        /\ \A j \in DOMAIN futures : j # i => futures'[j] = futures[j]
        /\ futures'[i].collected = futures[i].collected
        /\ \A u \in DOMAIN worker : u # w => worker'[u] = worker[u]

\* Every outcome the caller collected is in the tally, once.
NoUpdateLost ==
    pc \in {"submit", "collect", "reduce", "summary"} =>
        /\ successes = Cardinality({i \in DOMAIN futures :
                                       futures[i].collected
                                           /\ futures[i].result.success})
        /\ failures = Cardinality({i \in DOMAIN futures :
                                      futures[i].collected
                                          /\ ~futures[i].result.success})
        /\ Len(latencies) = successes
        /\ \A i \in DOMAIN futures :
              futures[i].collected => futures[i].state = "FINISHED"

\* The statistics are computed when no worker runs any more.
ReadAfterWorkers ==
    (pc = "reduce" \/ Returned) =>
        /\ InFlight = {}
        /\ queue = <<>>
        /\ \A w \in DOMAIN worker : worker[w].st \in {"unborn", "exited"}
        /\ \A i \in DOMAIN futures : futures[i].collected
        /\ Len(futures) = N

\* C15: the tally of a batch (successes, failures, latencies) changes only in
\* steps of the calling thread: a worker's step leaves it unchanged and
\* changes no future but its own; under every interleaving each collected
\* outcome is counted once, and the statistics are computed only after all
\* workers have completed.
C15_SoleWriter ==
    /\ [](NoUpdateLost /\ ReadAfterWorkers)
    /\ [][\A w \in DOMAIN worker : WorkerStep(w) => WorkerFrame(w)]_vars

C15_Witness ==
    /\ pc = "collect"
    /\ C = 2
    /\ Cardinality(InFlight) = 2
    /\ successes = 1
    /\ failures = 0
    /\ Len(futures) = 3
    /\ futures[1].collected

\* ---- warmup ---------------------------------------------------------------------
\* The number of requests the scenarios of main ask for.
ScenarioRequests ==
    LET S[i \in 0..Len(scenarios)] ==
            IF i = 0 THEN 0 ELSE S[i - 1] + scenarios[i].n
    IN  S[Len(scenarios)]

\* C16: the warmup calls are discarded: while they run no result, tally or
\* future exists; every scenario result counts the requests of its own
\* scenario only, and the totals of the summary are the sums over the
\* scenarios, whatever the warmup calls returned.
C16_WarmupDiscarded ==
    /\ pc = "warmup" =>
          /\ all_results = <<>>
          /\ futures = <<>>
          /\ latencies = <<>> /\ successes = 0 /\ failures = 0
          /\ summary = NoSummary
    /\ warm > 0 => lastCall.valid
    /\ \A j \in DOMAIN all_results :
          /\ all_results[j].requests = scenarios[j].n
          /\ all_results[j].successes <= scenarios[j].n
          /\ all_results[j].failures <= scenarios[j].n
    /\ summary # NoSummary =>
          /\ summary.total_requests = ScenarioRequests
          /\ summary.total_successes + summary.total_failures
                = ScenarioRequests

C16_Witness ==
    /\ pc = "done"
    /\ warm = WarmupCalls
    /\ lastCall.valid
    /\ ~lastCall.ret.success
    /\ summary.total_requests = 2
    /\ summary.total_successes = 2
    /\ summary.total_failures = 0

\* ---- cancellation ---------------------------------------------------------------
\* C17: after the caller was interrupted while waiting for outcomes, no call
\* that had not started is dispatched (the work queue keeps its items and a
\* pending future stays pending), calls in flight may return, and the
\* outcomes collected so far are left as they were.
C17_CancelStopsIssuing ==
    [][pc = "interrupted" =>
          /\ queue' = queue
          /\ \A i \in DOMAIN futures :
                futures[i].state = "PENDING" =>
                    /\ i \in DOMAIN futures'
                    /\ futures'[i].state = "PENDING"
          /\ UNCHANGED <<latencies, successes, failures>>
          /\ \A i \in DOMAIN futures :
                futures[i].collected => futures'[i] = futures[i]]_vars

\* ---- order of the statistics ----------------------------------------------------
\* C18: a result with at least one success has
\* min_ms <= p50_ms <= p95_ms <= p99_ms <= max_ms, each of them a latency of a
\* successful call of the batch, min_ms the least and max_ms the greatest.
C18_OrderedStatistics ==
    (Returned /\ LastResult.successes >= 1) =>
        LET r == LastResult
        IN  /\ r.min_ms <= r.p50_ms
            /\ r.p50_ms <= r.p95_ms
            /\ r.p95_ms <= r.p99_ms
            /\ r.p99_ms <= r.max_ms
            /\ {r.min_ms, r.p50_ms, r.p95_ms, r.p99_ms, r.max_ms}
                  \subseteq SuccessLatencies
            /\ \A v \in SuccessLatencies : r.min_ms <= v /\ v <= r.max_ms

C18_Witness ==
    /\ Returned
    /\ LastResult.successes = 20
    /\ LastResult.failures = 1
    /\ LastResult.min_ms = 1
    /\ LastResult.p50_ms = 11
    /\ LastResult.p95_ms = 20
    /\ LastResult.max_ms = 20
    /\ futures[1].result.latency = 7

\* ---- methods other than GET and POST ------------------------------------------
\* C19: with a method other than GET or POST no HTTP call is dispatched and
\* every invocation of make_request returns (False, 0) without raising; the
\* batch of N requests completes with successes = 0 and failures = N.
C19_OtherMethodFails ==
    (pc # "start" /\ scenarios[k].method \notin {"GET", "POST"}) =>
        /\ httpCalls = 0
        /\ pc # "raised"
        /\ \A i \in DOMAIN futures :
              futures[i].state = "FINISHED" =>
                  futures[i].result =
                      [raised |-> "none", success |-> FALSE, latency |-> 0]
        /\ successes = 0
        /\ latencies = <<>>
        /\ failures = NumCollected
        /\ Returned => /\ LastResult.successes = 0
                       /\ LastResult.failures = N
                       /\ LastResult.requests = N

C19_Witness ==
    /\ Returned
    /\ scenarios[k].method = "PUT"
    /\ N = 3
    /\ C = 2
    /\ LastResult.failures = 3
    /\ LastResult.successes = 0
    /\ httpCalls = 0
    /\ Invoked = 3

\* ---- termination ----------------------------------------------------------------
\* C20: under fair scheduling, with every call returning, each call of
\* run_concurrent_requests returns its result, for every N >= 0 and C >= 1:
\* the caller, the pool and the as_completed loop never block each other
\* for ever.
C20_BatchTerminates == <>Returned

C20_Witness ==
    /\ Returned
    /\ N = 2
    /\ C = 1
    /\ LastResult.successes = 1
    /\ LastResult.failures = 1
    /\ \A w \in DOMAIN worker : w > 1 => worker[w].st = "unborn"
====
